---- MODULE Spec2Model ----
(***************************************************************************)
(* A model of ukiki (src/src/ukiki.py): one run of main(), from the parsed *)
(* arguments to the process exit, together with the layout functions       *)
(* round_up, calculate_size and running_total called on their own.         *)
(*                                                                         *)
(* Strings the program looks into (the architecture, the hexadecimal       *)
(* fields) are sequences of one-character strings or of digit values, so   *)
(* that searching, formatting and parsing are computed, not assumed.       *)
(***************************************************************************)
EXTENDS Integers, Sequences, FiniteSets

VARIABLES
    pc,                   \* position of the run in main()
    args,                 \* argparse's result (line 140)
    env,                  \* the world outside: files, objdump's and objcopy's answers
    efistub,              \* main's efistub (line 143)
    tmp_exists,           \* whether the NamedTemporaryFile of line 145 is on disk
    tmp_size,             \* its size in bytes
    last_stub_section,    \* line 149
    aligned_stub_section, \* line 153
    sizes,                \* the ordered dict of lines 159-168
    offsets,              \* the ordered dict of line 174
    command_line,         \* the argv of lines 180-191
    calls,                \* external actions performed so far
    output_written,       \* whether objcopy has produced the output file
    fatal,                \* the sys.exit message or exception that ended the run, or << >>
    exit_status,          \* the process's exit status once pc = "done"
    unit                  \* the inputs of a direct call of the layout functions

vars == <<pc, args, env, efistub, tmp_exists, tmp_size, last_stub_section,
          aligned_stub_section, sizes, offsets, command_line, calls,
          output_written, fatal, exit_status, unit>>

---------------------------------------------------------------------------
(* Bounds of the model *)

\* file sizes and addresses span 0..MaxPages alignment quanta
MaxPages == 1
\* characters put before and after each architecture spelling
MaxPad == 1
\* longest --cmdline string, in characters
MaxCmdline == 1
\* most sections in a directly built plan
MaxUnitSections == 3
\* alignments 2^0 .. 2^MaxLog are given to round_up
MaxLog == 3

---------------------------------------------------------------------------
(* Program constants *)

\* alignment = 0x1000
alignment == 4096

SystemExit == "SystemExit"

---------------------------------------------------------------------------
(* Text: hexadecimal formatting and parsing, regular-expression search *)

RECURSIVE ToHex(_)
\* f"{v:x}": the hexadecimal digits of v, most significant first
ToHex(v) == IF v < 16 THEN <<v>> ELSE Append(ToHex(v \div 16), v % 16)

RECURSIVE ZeroPad(_, _)
\* objdump's %08x: zero-padded to a width
ZeroPad(digits, width) ==
    IF Len(digits) >= width THEN digits ELSE ZeroPad(<<0>> \o digits, width)

RECURSIVE int16(_)
\* int(line, 16)
int16(digits) ==
    IF Len(digits) = 0 THEN 0
    ELSE 16 * int16(SubSeq(digits, 1, Len(digits) - 1)) + digits[Len(digits)]

\* re.search(pattern, s) for a pattern that is a sequence of character classes:
\* whether the pattern matches at some position of s
re_search(pattern, s) ==
    \E i \in 1..(Len(s) - Len(pattern) + 1) :
        \A j \in 1..Len(pattern) : s[i + j - 1] \in pattern[j]

\* R"i[34567]86"
PatI86 == << {"i"}, {"3", "4", "5", "6", "7"}, {"8"}, {"6"} >>
\* R"arm.*": the trailing .* also matches the empty string
PatArm == << {"a"}, {"r"}, {"m"} >>

s_x86_64 == << "x", "8", "6", "_", "6", "4" >>
s_x64 == << "x", "6", "4" >>
s_amd64 == << "a", "m", "d", "6", "4" >>
s_ia32 == << "i", "a", "3", "2" >>
s_arm64 == << "a", "r", "m", "6", "4" >>
s_aarch64 == << "a", "a", "r", "c", "h", "6", "4" >>
s_aa64 == << "a", "a", "6", "4" >>
s_arm == << "a", "r", "m" >>
s_armv7l == << "a", "r", "m", "v", "7", "l" >>
s_i286 == << "i", "2", "8", "6" >>
s_i386 == << "i", "3", "8", "6" >>
s_i686 == << "i", "6", "8", "6" >>
s_i786 == << "i", "7", "8", "6" >>
s_i886 == << "i", "8", "8", "6" >>
s_riscv64 == << "r", "i", "s", "c", "v", "6", "4" >>
s_ar == << "a", "r" >>

---------------------------------------------------------------------------
(* Pure functions of the program *)

translate_machine(arch) ==
    IF arch \in {s_x86_64, s_x64, s_amd64} THEN "x64"
    ELSE IF re_search(PatI86, arch) \/ arch = s_ia32 THEN "ia32"
    ELSE IF arch \in {s_arm64, s_aarch64, s_aa64} THEN "aa64"
    ELSE IF re_search(PatArm, arch) THEN "arm"
    ELSE SystemExit

\* the three candidate paths of guess_efistub, in order
guesslist(arch) == << <<"./linux", arch, ".efi.stub">>,
                      <<"/usr/lib/systemd/boot/efi/linux", arch, ".efi.stub">>,
                      <<"/usr/lib/gummiboot/linux", arch, ".efi.stub">> >>

\* a variant that adds the quantum without rounding
round_up_add(value, roundby) == value + roundby

\* plain rounding up to a multiple, without the extra quantum
round_up_ceil(value, roundby) == -((-value) \div roundby) * roundby

round_up(value, roundby) == -((-value) \div roundby) * roundby + roundby

\* (aligned size, file) of a file of st_size bytes
calculate_size(st_size, file, a) == << round_up(st_size, a), file >>

\* d[k] = val on an insertion-ordered dict, kept as a sequence of <<key, value>>
DictSet(d, k, val) ==
    IF \E i \in 1..Len(d) : d[i][1] = k
    THEN [i \in 1..Len(d) |-> IF d[i][1] = k THEN <<k, val>> ELSE d[i]]
    ELSE Append(d, <<k, val>>)

DictKeys(d) == [i \in 1..Len(d) |-> d[i][1]]

\* a variant that gives every section the starting address
running_total_flat(d, start) ==
    [i \in 1..Len(d) |-> << d[i][1], << start, d[i][2][2] >> >>]

RECURSIVE running_total_loop(_, _, _, _)
\* the loop of running_total from entry i on: ret[k] = last, p; last = v + last
running_total_loop(d, i, last, ret) ==
    IF i > Len(d) THEN ret
    ELSE running_total_loop(d, i + 1, d[i][2][1] + last,
                            DictSet(ret, d[i][1], << last, d[i][2][2] >>))

running_total(d, start) == running_total_loop(d, 1, start, << >>)

\* the output of objdump --section-headers, one row per section, the columns
\* in objdump's order: name, size, VMA, LMA, file offset
SectionRow(name, size, vma, off) ==
    << name, ZeroPad(ToHex(size), 8), ZeroPad(ToHex(vma), 8),
       ZeroPad(ToHex(vma), 8), ZeroPad(ToHex(off), 8) >>

\* the groups (1..4) of the first match of the .reloc pattern, or << >>
reloc_match(listing) ==
    IF \E i \in 1..Len(listing) : listing[i][1] = ".reloc"
    THEN LET i == CHOOSE j \in 1..Len(listing) :
                      /\ listing[j][1] = ".reloc"
                      /\ \A h \in 1..(j - 1) : listing[h][1] # ".reloc"
         IN  << listing[i][2], listing[i][3], listing[i][4], listing[i][5] >>
    ELSE << >>

\* the value parse_last_section returns once the pattern has matched
parse_last_section(listing) == int16(reloc_match(listing)[2])

\* len(s.encode("UTF-8")) of a string given as its code points
RECURSIVE utf8_len(_)
utf8_len(s) ==
    IF Len(s) = 0 THEN 0
    ELSE utf8_len(Tail(s)) +
         (IF s[1] < 128 THEN 1 ELSE IF s[1] < 2048 THEN 2
          ELSE IF s[1] < 65536 THEN 3 ELSE 4)

\* the --add-section / --change-section-vma arguments of lines 182-189
RECURSIVE append_args(_, _)
append_args(d, i) ==
    IF i > Len(d) THEN << >>
    ELSE << <<"--add-section">>, << d[i][1], "=", d[i][2][2] >>,
            <<"--change-section-vma">>, << d[i][1], "=0x", ToHex(d[i][2][1]) >> >>
         \o append_args(d, i + 1)

---------------------------------------------------------------------------
(* The inputs of a run *)

Pad(n) == [i \in 1..n |-> "v"]

BaseArch == { s_x86_64, s_x64, s_amd64, s_ia32, s_arm64, s_aarch64, s_aa64,
              s_arm, s_armv7l, s_i286, s_i386, s_i686, s_i786, s_i886,
              s_riscv64, s_ar, << >> }

\* every spelling, bare and with up to MaxPad characters before and after it
ArchInputs == { Pad(m) \o s \o Pad(n) : s \in BaseArch, m \in 0..MaxPad, n \in 0..MaxPad }

ArchFew == { s_x86_64, s_riscv64 }

\* 'q' and 'e acute', the second two bytes long in UTF-8
CmdChars == { 113, 233 }

RECURSIVE StringsUpTo(_, _)
StringsUpTo(chars, n) ==
    IF n = 0 THEN { << >> }
    ELSE StringsUpTo(chars, n - 1) \cup
         { Append(s, c) : s \in { t \in StringsUpTo(chars, n - 1) : Len(t) = n - 1 },
                          c \in chars }

CmdLines == StringsUpTo(CmdChars, MaxCmdline)

\* sizes on both sides of each quantum boundary
PageSizes == { p * alignment + d : p \in 0..MaxPages, d \in {0, 1} }

RelocAddrs == { p * alignment + d : p \in 0..MaxPages, d \in {0, 2048} }
RelocSizes == { 256 } \cup { alignment + d : d \in {0, 1} }

File(n) == [exists |-> TRUE, st_size |-> n]
NoFile == [exists |-> FALSE, st_size |-> 0]

TextRow == SectionRow(".text", 4096, 4096, 1024)
Listing(vma, size) == << TextRow, SectionRow(".reloc", size, vma, 2048) >>
GoodDump == [rc |-> 0, listing |-> Listing(8192, 256)]
Dumps == { GoodDump, [rc |-> 1, listing |-> << >>], [rc |-> 0, listing |-> << TextRow >>] }

Args(arch, stub, splash, cmdline) ==
    [arch |-> arch, efistub |-> stub, splash |-> splash, cmdline |-> cmdline,
     osrel |-> "os-release", initrd |-> "initrd.img", linux |-> "vmlinuz",
     output |-> "out.efi"]

Env(exists, dump, fo, fi, fs, fl, rc) ==
    [exists |-> exists, objdump |-> dump, objcopy_rc |-> rc,
     files |-> [osrel |-> fo, initrd |-> fi, splash |-> fs, linux |-> fl]]

\* --efistub and --splash: << >> is Python's None
Stubs == { << >>, << "stub.efi" >> }
Splashes == { << >>, << "splash.bmp" >> }

\* every architecture string against every set of existing candidate stubs
ArchRuns ==
    { << Args(a, << >>, << >>, << >>),
         Env(e, GoodDump, File(1), File(1), NoFile, File(1), 0) >> :
      a \in ArchInputs, e \in SUBSET (1..3) }

\* every way a run can stop: stub resolution, inspection, a missing source
\* file, the exit status of objcopy
ControlRuns ==
    { << Args(a, st, sp, c), Env(e, d, fo, fi, fs, fl, rc) >> :
      a \in ArchFew, st \in Stubs, sp \in Splashes, c \in CmdLines,
      e \in { {}, {2} }, d \in Dumps,
      fo \in {File(1), NoFile}, fi \in {File(1), NoFile},
      fs \in {File(1), NoFile}, fl \in {File(1), NoFile}, rc \in {0, 1} }

\* every .reloc row against every combination of source file sizes
LayoutRuns ==
    { << Args(s_x86_64, << "stub.efi" >>, sp, c),
         Env({}, [rc |-> 0, listing |-> Listing(v, z)], File(fo), File(fi),
             IF sp = << >> THEN NoFile ELSE File(fs), File(fl), 0) >> :
      sp \in Splashes, c \in { << >>, [i \in 1..MaxCmdline |-> 233] },
      v \in RelocAddrs, z \in RelocSizes,
      fo \in PageSizes, fi \in PageSizes, fs \in PageSizes, fl \in PageSizes }

NoUnit == [listing |-> << >>, a |-> alignment, files |-> << >>]

Init ==
    /\ \E r \in ArchRuns \cup ControlRuns \cup LayoutRuns :
           args = r[1] /\ env = r[2]
    /\ pc = "resolve"
    /\ efistub = << >>
    /\ tmp_exists = FALSE
    /\ tmp_size = 0
    /\ last_stub_section = 0
    /\ aligned_stub_section = 0
    /\ sizes = << >>
    /\ offsets = << >>
    /\ command_line = << >>
    /\ calls = [exists |-> 0, objdump |-> 0, objcopy |-> 0]
    /\ output_written = FALSE
    /\ fatal = << >>
    /\ exit_status = 0
    /\ unit = NoUnit

---------------------------------------------------------------------------
(* The run of main() *)

Bump(what) == [calls EXCEPT ![what] = @ + 1]

\* a variant whose exception leaves the temporary file behind
Raise_leak(exception) ==
    /\ pc' = "done"
    /\ fatal' = exception
    /\ exit_status' = 1
    /\ tmp_exists' = tmp_exists

\* an exception inside the with block of line 145: the block's exit removes
\* the temporary file, and the interpreter ends with status 1
Raise(exception) ==
    /\ pc' = "done"
    /\ fatal' = exception
    /\ exit_status' = 1
    /\ tmp_exists' = FALSE

\* guess_efistub(arch): the stub found, or the sys.exit message, and the
\* number of exists() calls made
guess_efistub(arch) ==
    LET code == translate_machine(arch)
        found == { i \in 1..3 : i \in env.exists }
        first == CHOOSE i \in found : \A j \in found : i <= j
    IN  IF code = SystemExit
        THEN [stub |-> << >>, exit |-> << "Unknown architecture", arch >>, checks |-> 0]
        ELSE IF found = {}
        THEN [stub |-> << >>, exit |-> << "stub absent", code >>, checks |-> 3]
        ELSE [stub |-> guesslist(code)[first], exit |-> << >>, checks |-> first]

\* line 143, --efistub given
UseEfistub ==
    /\ pc = "resolve"
    /\ args.efistub # << >>
    /\ efistub' = args.efistub
    /\ pc' = "with"
    /\ UNCHANGED <<args, env, tmp_exists, tmp_size, last_stub_section,
                   aligned_stub_section, sizes, offsets, command_line, calls,
                   output_written, fatal, exit_status, unit>>

\* line 143, --efistub absent: guess_efistub(args.arch)
GuessEfistub ==
    /\ pc = "resolve"
    /\ args.efistub = << >>
    /\ LET g == guess_efistub(args.arch)
       IN  /\ calls' = [calls EXCEPT !.exists = @ + g.checks]
           /\ efistub' = g.stub
           /\ fatal' = g.exit
           /\ IF g.exit # << >>
              THEN pc' = "done" /\ exit_status' = 1
              ELSE pc' = "with" /\ exit_status' = exit_status
    /\ UNCHANGED <<args, env, tmp_exists, tmp_size, last_stub_section,
                   aligned_stub_section, sizes, offsets, command_line,
                   output_written, unit>>

\* lines 145-147: the temporary file holding the command line
EnterWith ==
    /\ pc = "with"
    /\ tmp_exists' = TRUE
    /\ tmp_size' = utf8_len(args.cmdline)
    /\ pc' = "inspect"
    /\ UNCHANGED <<args, env, efistub, last_stub_section, aligned_stub_section,
                   sizes, offsets, command_line, calls, output_written, fatal,
                   exit_status, unit>>

\* a variant that goes on with a mark of 0 when the inspection fails
ParseLastSection_lenient ==
    /\ pc = "inspect"
    /\ calls' = Bump("objdump")
    /\ last_stub_section' =
           IF env.objdump.rc = 0 /\ reloc_match(env.objdump.listing) # << >>
           THEN parse_last_section(env.objdump.listing) ELSE 0
    /\ pc' = "round"
    /\ UNCHANGED <<args, env, efistub, tmp_exists, tmp_size, aligned_stub_section,
                   sizes, offsets, command_line, output_written, fatal,
                   exit_status, unit>>

\* line 149: parse_last_section(efistub)
ParseLastSection ==
    /\ pc = "inspect"
    /\ calls' = Bump("objdump")
    /\ IF env.objdump.rc # 0
       THEN Raise(<< "CalledProcessError" >>) /\ UNCHANGED last_stub_section
       ELSE IF reloc_match(env.objdump.listing) = << >>
       THEN Raise(<< "AttributeError" >>) /\ UNCHANGED last_stub_section
       ELSE /\ last_stub_section' = parse_last_section(env.objdump.listing)
            /\ pc' = "round"
            /\ UNCHANGED <<tmp_exists, fatal, exit_status>>
    /\ UNCHANGED <<args, env, efistub, tmp_size, aligned_stub_section, sizes,
                   offsets, command_line, output_written, unit>>

\* lines 151-156
RoundStub ==
    /\ pc = "round"
    /\ aligned_stub_section' = round_up(last_stub_section, alignment)
    /\ pc' = "osrel"
    /\ UNCHANGED <<args, env, efistub, tmp_exists, tmp_size, last_stub_section,
                   sizes, offsets, command_line, calls, output_written, fatal,
                   exit_status, unit>>

\* sizes[name] = calculate_size(path, alignment); stat() raises on a missing file
AddSize(name, file, path, next) ==
    /\ IF file.exists
       THEN /\ sizes' = DictSet(sizes, name, calculate_size(file.st_size, path, alignment))
            /\ pc' = next
            /\ UNCHANGED <<tmp_exists, fatal, exit_status>>
       ELSE Raise(<< "FileNotFoundError", path >>) /\ UNCHANGED sizes
    /\ UNCHANGED <<args, env, efistub, tmp_size, last_stub_section,
                   aligned_stub_section, offsets, command_line, calls,
                   output_written, unit>>

Skip(next) ==
    /\ pc' = next
    /\ UNCHANGED <<args, env, efistub, tmp_exists, tmp_size, last_stub_section,
                   aligned_stub_section, sizes, offsets, command_line, calls,
                   output_written, fatal, exit_status, unit>>

\* line 160
SizeOsrel == pc = "osrel" /\ AddSize(".osrel", env.files.osrel, args.osrel, "initrd")

\* line 161
SizeInitrd == pc = "initrd" /\ AddSize(".initrd", env.files.initrd, args.initrd, "splash")

\* a variant that adds .splash whether or not a splash image was given
SizeSplash_always ==
    pc = "splash" /\ AddSize(".splash", File(1), "splash.bmp", "cmdline")

\* lines 163-164
SizeSplash ==
    /\ pc = "splash"
    /\ IF args.splash # << >>
       THEN AddSize(".splash", env.files.splash, args.splash[1], "cmdline")
       ELSE Skip("cmdline")

\* lines 165-166: the temporary file is the source of .cmdline
SizeCmdline ==
    /\ pc = "cmdline"
    /\ IF args.cmdline # << >>
       THEN AddSize(".cmdline", [exists |-> tmp_exists, st_size |-> tmp_size],
                    "/tmp/tmpcmdline", "linux")
       ELSE Skip("linux")

\* line 168
SizeLinux == pc = "linux" /\ AddSize(".linux", env.files.linux, args.linux, "total")

\* line 174
RunningTotal ==
    /\ pc = "total"
    /\ offsets' = running_total(sizes, aligned_stub_section)
    /\ pc' = "append"
    /\ UNCHANGED <<args, env, efistub, tmp_exists, tmp_size, last_stub_section,
                   aligned_stub_section, sizes, command_line, calls,
                   output_written, fatal, exit_status, unit>>

\* the exit status of the process after subprocess.run(..., check=False)
\* returned rc: the result is dropped and main() returns None
main_exit_status(rc) == 0

\* lines 180-193, the end of the with block and the return of main()
AppendSections ==
    /\ pc = "append"
    /\ command_line' = << <<"objcopy">>, efistub, << args.output >> >>
                       \o append_args(offsets, 1)
    /\ calls' = Bump("objcopy")
    /\ output_written' = (env.objcopy_rc = 0)
    /\ tmp_exists' = FALSE
    /\ exit_status' = main_exit_status(env.objcopy_rc)
    /\ pc' = "done"
    /\ UNCHANGED <<args, env, efistub, tmp_size, last_stub_section,
                   aligned_stub_section, sizes, offsets, fatal, unit>>

Next ==
    \/ UseEfistub
    \/ GuessEfistub
    \/ EnterWith
    \/ ParseLastSection
    \/ RoundStub
    \/ SizeOsrel
    \/ SizeInitrd
    \/ SizeSplash
    \/ SizeCmdline
    \/ SizeLinux
    \/ RunningTotal
    \/ AppendSections

Spec == Init /\ [][Next]_vars

---------------------------------------------------------------------------
(* The layout functions called on their own: inspection, rounding, sizes   *)
(* and accumulation over any ordered list of sections and any alignment    *)

RECURSIVE Pow2(_)
Pow2(k) == IF k = 0 THEN 1 ELSE 2 * Pow2(k - 1)

UnitAligns == { Pow2(k) : k \in 0..MaxLog } \cup { alignment }

UnitAddrs == { p * alignment + d : p \in 0..(MaxPages + 2), d \in {0, 1} }
             \cup { alignment - 1 }

UnitSizes == { 1, 10, alignment - 1, alignment, 5000 }

\* section names by position, .linux last
UnitNames(n) ==
    [i \in 1..n |-> IF i = n THEN ".linux"
                    ELSE << ".osrel", ".initrd", ".splash", ".cmdline" >>[((i - 1) % 4) + 1]]

RECURSIVE SizeLists(_)
SizeLists(n) ==
    IF n = 0 THEN { << >> }
    ELSE SizeLists(n - 1) \cup
         { Append(l, z) : l \in { t \in SizeLists(n - 1) : Len(t) = n - 1 },
                          z \in UnitSizes }

UnitFiles ==
    { [i \in 1..Len(l) |-> << UnitNames(Len(l))[i], "file", l[i] >>] :
      l \in SizeLists(MaxUnitSections) \ { << >> } }

UnitInputs ==
    { [listing |-> Listing(v, 256), a |-> a, files |-> f] :
      v \in UnitAddrs, a \in UnitAligns, f \in UnitFiles }

InitUnit ==
    /\ unit \in UnitInputs
    /\ args = Args(s_x86_64, << "stub.efi" >>, << >>, << >>)
    /\ env = Env({}, GoodDump, File(1), File(1), NoFile, File(1), 0)
    /\ pc = "u_inspect"
    /\ efistub = << "stub.efi" >>
    /\ tmp_exists = FALSE
    /\ tmp_size = 0
    /\ last_stub_section = 0
    /\ aligned_stub_section = 0
    /\ sizes = << >>
    /\ offsets = << >>
    /\ command_line = << >>
    /\ calls = [exists |-> 0, objdump |-> 0, objcopy |-> 0]
    /\ output_written = FALSE
    /\ fatal = << >>
    /\ exit_status = 0

\* parse_last_section on the listing
UnitInspect ==
    /\ pc = "u_inspect"
    /\ last_stub_section' = parse_last_section(unit.listing)
    /\ pc' = "u_round"
    /\ UNCHANGED <<args, env, efistub, tmp_exists, tmp_size, aligned_stub_section,
                   sizes, offsets, command_line, calls, output_written, fatal,
                   exit_status, unit>>

\* round_up(mark, a)
UnitRound ==
    /\ pc = "u_round"
    /\ aligned_stub_section' = round_up(last_stub_section, unit.a)
    /\ pc' = "u_size"
    /\ UNCHANGED <<args, env, efistub, tmp_exists, tmp_size, last_stub_section,
                   sizes, offsets, command_line, calls, output_written, fatal,
                   exit_status, unit>>

\* sizes[name] = calculate_size(file, a) for the next section of the list
UnitSize ==
    /\ pc = "u_size"
    /\ Len(sizes) < Len(unit.files)
    /\ LET f == unit.files[Len(sizes) + 1]
       IN  sizes' = DictSet(sizes, f[1], calculate_size(f[3], f[2], unit.a))
    /\ UNCHANGED <<pc, args, env, efistub, tmp_exists, tmp_size, last_stub_section,
                   aligned_stub_section, offsets, command_line, calls,
                   output_written, fatal, exit_status, unit>>

\* running_total(sizes, start)
UnitTotal ==
    /\ pc = "u_size"
    /\ Len(sizes) = Len(unit.files)
    /\ offsets' = running_total(sizes, aligned_stub_section)
    /\ pc' = "u_done"
    /\ UNCHANGED <<args, env, efistub, tmp_exists, tmp_size, last_stub_section,
                   aligned_stub_section, sizes, command_line, calls,
                   output_written, fatal, exit_status, unit>>

NextUnit == UnitInspect \/ UnitRound \/ UnitSize \/ UnitTotal

SpecUnit == InitUnit /\ [][NextUnit]_vars

---------------------------------------------------------------------------
(* Properties *)

\* the least multiple of a that is >= x, for x >= 0
LeastMultipleAtLeast(x, a) == ((x + a - 1) \div a) * a

\* every (value, result) pair of a rounding the direct calls have performed
Rounds ==
    (IF pc \in {"u_size", "u_done"}
     THEN { << last_stub_section, aligned_stub_section >> } ELSE {})
    \cup { << unit.files[i][3], sizes[i][2][1] >> : i \in 1..Len(sizes) }

\* C2 as stated: round_up(v, a) is the least multiple of a above v when v is
\* a multiple of a and the least multiple of a that is >= v+1 otherwise, with
\* round_up(0x1000, 0x1000) = 0x2000, round_up(0x1001, 0x1000) = 0x2000 and
\* round_up(0xFFF, 0x1000) = 0x1000.
C2_Original ==
    \A vr \in Rounds :
        /\ vr[2] = LeastMultipleAtLeast(vr[1] + 1, unit.a)
        /\ (unit.a = 4096 /\ vr[1] = 4096) => vr[2] = 8192
        /\ (unit.a = 4096 /\ vr[1] = 4097) => vr[2] = 8192
        /\ (unit.a = 4096 /\ vr[1] = 4095) => vr[2] = 4096

\* C2 amended: round_up(v, a) is the least multiple of a above v when v is a
\* multiple of a, and one quantum more than the least multiple of a that is
\* >= v otherwise; round_up(0x1000, 0x1000) = 0x2000,
\* round_up(0x1001, 0x1000) = 0x3000 and round_up(0xFFF, 0x1000) = 0x2000.
C2_RoundUp ==
    \A vr \in Rounds :
        /\ IF vr[1] % unit.a = 0
           THEN vr[2] = LeastMultipleAtLeast(vr[1] + 1, unit.a)
           ELSE vr[2] = LeastMultipleAtLeast(vr[1], unit.a) + unit.a
        /\ (unit.a = 4096 /\ vr[1] = 4096) => vr[2] = 8192
        /\ (unit.a = 4096 /\ vr[1] = 4097) => vr[2] = 12288
        /\ (unit.a = 4096 /\ vr[1] = 4095) => vr[2] = 8192

\* the three worked values have all been rounded, by a quantum of 0x1000 and
\* in another run by a smaller power of two that does not divide the value
C2_Witness ==
    /\ pc = "u_done"
    /\ unit.a = 4096
    /\ last_stub_section = 4097
    /\ << 4095, 8192 >> \in Rounds
    /\ << 4096, 8192 >> \in Rounds

C2_WitnessSmall ==
    /\ pc = "u_done"
    /\ unit.a = 4
    /\ << 10, 16 >> \in Rounds

Addr(i) == offsets[i][2][1]
AlignedSize(i) == sizes[i][2][1]
FileSizesAre(l) == [i \in 1..Len(unit.files) |-> unit.files[i][3]] = l

\* the .reloc row of a listing, as numbers, by objdump's columns
RelocSize(listing) == int16(reloc_match(listing)[1])
RelocVMA(listing) == int16(reloc_match(listing)[2])

\* C4 as stated: the first address is the mark rounded up, each later one the
\* previous address plus the previous aligned size, a file of 1..4095 bytes
\* takes one quantum; mark 0x3000 with .osrel of 10 and .linux of 5000 bytes
\* gives 0x4000 and 0x5000; a .reloc row at 0x2000 of size 0x100 with three
\* 1-byte files starts at 0x3000 and steps by one quantum.
C4_Original ==
    (pc = "u_done" /\ unit.a = alignment) =>
        /\ Addr(1) = aligned_stub_section
        /\ \A i \in 2..Len(offsets) : Addr(i) = Addr(i - 1) + AlignedSize(i - 1)
        /\ \A i \in 1..Len(sizes) :
               unit.files[i][3] \in 1..4095 => AlignedSize(i) = alignment
        /\ (last_stub_section = 12288 /\ FileSizesAre(<< 10, 5000 >>)) =>
               (Addr(1) = 16384 /\ Addr(2) = 20480)
        /\ (RelocVMA(unit.listing) = 8192 /\ RelocSize(unit.listing) = 256
              /\ FileSizesAre(<< 1, 1, 1 >>)) =>
               (Addr(1) = 12288 /\ \A i \in 2..3 : Addr(i) - Addr(i - 1) = alignment)

\* C4 amended: as stated, except that a file of 1..4095 bytes takes two
\* quanta (0x2000), so that .linux of the first example is at 0x6000 and the
\* addresses of the second example step by two quanta.
C4_Accumulation ==
    (pc = "u_done" /\ unit.a = alignment) =>
        /\ Addr(1) = IF last_stub_section % alignment = 0
                     THEN last_stub_section + alignment
                     ELSE LeastMultipleAtLeast(last_stub_section, alignment) + alignment
        /\ \A i \in 2..Len(offsets) : Addr(i) = Addr(i - 1) + AlignedSize(i - 1)
        /\ \A i \in 1..Len(sizes) :
               unit.files[i][3] \in 1..4095 => AlignedSize(i) = 2 * alignment
        /\ (last_stub_section = 12288 /\ FileSizesAre(<< 10, 5000 >>)) =>
               (Addr(1) = 16384 /\ Addr(2) = 24576)
        /\ (RelocVMA(unit.listing) = 8192 /\ RelocSize(unit.listing) = 256
              /\ FileSizesAre(<< 1, 1, 1 >>)) =>
               (Addr(1) = 12288 /\ \A i \in 2..3 : Addr(i) - Addr(i - 1) = 2 * alignment)

\* the first worked example has been planned
C4_Witness ==
    /\ pc = "u_done"
    /\ unit.a = alignment
    /\ last_stub_section = 12288
    /\ FileSizesAre(<< 10, 5000 >>)
    /\ DictKeys(offsets) = << ".osrel", ".linux" >>

\* the second worked example has been planned
C4_WitnessEndToEnd ==
    /\ pc = "u_done"
    /\ unit.a = alignment
    /\ RelocVMA(unit.listing) = 8192
    /\ RelocSize(unit.listing) = 256
    /\ FileSizesAre(<< 1, 1, 1 >>)
    /\ DictKeys(offsets) = << ".osrel", ".initrd", ".linux" >>

---------------------------------------------------------------------------
(* Properties of a run of main() *)

Planned == pc \in {"append", "done"} /\ fatal = << >> /\ efistub # << >>
           /\ calls.objdump = 1

\* the first address past the stub's .reloc section
high_water_mark == RelocVMA(env.objdump.listing) + RelocSize(env.objdump.listing)

Disjoint(i, j) ==
    \/ Addr(i) + AlignedSize(i) <= Addr(j)
    \/ Addr(j) + AlignedSize(j) <= Addr(i)

\* C1: in every plan main() computes, the ranges [addr, addr + aligned size)
\* of two distinct appended sections do not intersect, and none intersects
\* the stub's range [0, high_water_mark), where high_water_mark is the
\* .reloc row's virtual address plus its size.
C1_NoOverlap ==
    Planned =>
        /\ \A i, j \in 1..Len(offsets) : i # j => Disjoint(i, j)
        /\ \A i \in 1..Len(offsets) : Addr(i) >= high_water_mark

\* C5: every address running_total assigns in main() is a multiple of the
\* alignment quantum 0x1000, and the addresses do not decrease in plan order.
C5_AlignedMonotonic ==
    /\ \A i \in 1..Len(offsets) : Addr(i) % 4096 = 0
    /\ \A i \in 2..Len(offsets) : Addr(i - 1) <= Addr(i)

\* a full plan over an unaligned mark and an empty file
C5_Witness ==
    /\ Planned
    /\ Len(offsets) = 5
    /\ last_stub_section % alignment # 0
    /\ env.files.initrd.st_size = 0

\* a plan over a mark of 0
C5_WitnessZero == Planned /\ last_stub_section = 0 /\ Len(offsets) = 3

\* C10: parse_last_section returns the sum of the .reloc row's virtual
\* address field and its size field (the end address of .reloc), and main()
\* rounds that sum up to get the plan's starting address.
C10_EndAddress ==
    /\ (pc \notin {"resolve", "with", "inspect"} /\ fatal = << >>) =>
           last_stub_section = high_water_mark
    /\ Planned => Addr(1) = round_up(high_water_mark, alignment)

\* the sections main() is to append, in order, for the optional inputs given
ExpectedNames ==
    << ".osrel", ".initrd" >>
    \o (IF args.splash # << >> THEN << ".splash" >> ELSE << >>)
    \o (IF args.cmdline # << >> THEN << ".cmdline" >> ELSE << >>)
    \o << ".linux" >>

\* what the editor is asked to do: the (name, source, address) of each
\* --add-section / --change-section-vma pair behind "objcopy stub output"
EditorOps(argv) ==
    [i \in 1..((Len(argv) - 3) \div 4) |->
        LET add == argv[3 + 4 * (i - 1) + 2]
            vma == argv[3 + 4 * (i - 1) + 4]
        IN  << add[1], add[3], vma[1], int16(vma[3]) >>]

\* C3: plan and editor operations list the sections in the order .osrel,
\* .initrd, .splash, .cmdline, .linux, with .linux last, .splash exactly when
\* a splash path was given and .cmdline exactly when the command line is not
\* empty, and the editor gets one (name, source, address) per plan entry, in
\* plan order.
C3_OrderAndGating ==
    /\ (pc \in {"total", "append"} \/ (pc = "done" /\ fatal = << >>)) =>
           DictKeys(sizes) = ExpectedNames
    /\ Planned =>
           /\ DictKeys(offsets) = ExpectedNames
           /\ offsets[Len(offsets)][1] = ".linux"
    /\ calls.objcopy > 0 =>
           /\ command_line[1] = << "objcopy" >>
           /\ command_line[2] = efistub
           /\ command_line[3] = << args.output >>
           /\ Len(command_line) = 3 + 4 * Len(offsets)
           /\ EditorOps(command_line) =
                  [i \in 1..Len(offsets) |->
                      << offsets[i][1], offsets[i][2][2], offsets[i][1], Addr(i) >>]

\* the editor has been run with a command line and without a splash image
C3_Witness ==
    /\ calls.objcopy = 1
    /\ args.splash = << >>
    /\ args.cmdline # << >>
    /\ Len(offsets) = 4

\* the editor has been run with every optional input
C3_WitnessAll == calls.objcopy = 1 /\ Len(offsets) = 5

\* architecture strings translate_machine does not know
UnknownArch == { s_riscv64, s_i286, s_i886, s_ar, << >> }

\* a fatal condition is present in the inputs of the run
FatalCondition ==
    \/ args.efistub = << >> /\ args.arch \in UnknownArch
    \/ args.efistub = << >> /\ env.exists = {}
    \/ env.objdump.rc # 0
    \/ reloc_match(env.objdump.listing) = << >>

\* C6: a run that hits a fatal condition (unknown architecture, no stub at
\* any candidate path, inspection failing, no .reloc row) ends without objcopy
\* ever being invoked and without the output file being written; objcopy is
\* invoked only after stub resolution, inspection and planning have succeeded.
C6_FailBeforeMutate ==
    /\ (FatalCondition \/ fatal # << >>) =>
           (calls.objcopy = 0 /\ ~output_written /\ command_line = << >>)
    /\ FatalCondition => (pc = "done" => fatal # << >>)
    /\ calls.objcopy > 0 =>
           /\ efistub # << >>
           /\ calls.objdump = 1
           /\ DictKeys(offsets) = ExpectedNames
           /\ fatal = << >>

\* a run ended by a listing without a .reloc row
C6_Witness ==
    /\ pc = "done"
    /\ fatal = << "AttributeError" >>
    /\ calls.objdump = 1
    /\ calls.objcopy = 0

\* C7: once the run has ended, on any path, the temporary command-line file
\* no longer exists.
C7_TmpRemoved ==
    /\ pc = "done" => ~tmp_exists
    /\ tmp_exists => pc \notin {"resolve", "with", "done"}

\* a run ended by a missing source file after the temporary file was written
C7_Witness ==
    /\ pc = "done"
    /\ fatal # << >>
    /\ fatal[1] = "FileNotFoundError"
    /\ args.cmdline # << >>

\* a run ended by a failing objcopy
C7_WitnessAppend == pc = "done" /\ calls.objcopy = 1 /\ env.objcopy_rc # 0

\* C8: when objcopy returns a non-zero status the run does not raise, the
\* status is surfaced to the caller of the tool (the tool's own exit status
\* tells that the append failed), and objcopy is run exactly once.
C8_StatusSurfaced ==
    (pc = "done" /\ calls.objcopy > 0 /\ env.objcopy_rc # 0) =>
        /\ fatal = << >>
        /\ calls.objcopy = 1
        /\ exit_status # 0

\* the architecture code guess_efistub worked with, or SystemExit
ArchResult ==
    IF fatal # << >> /\ fatal[1] = "Unknown architecture" THEN SystemExit
    ELSE IF fatal # << >> /\ fatal[1] = "stub absent" THEN fatal[2]
    ELSE efistub[2]

StartsWith(s, prefix) ==
    Len(s) >= Len(prefix) /\ SubSeq(s, 1, Len(prefix)) = prefix

\* C9: translate_machine gives x64 for x86_64, x64, amd64; ia32 for i386 ..
\* i786 and ia32; aa64 for arm64, aarch64, aa64; arm for any other string
\* starting with "arm"; and fails on every other string, before any
\* filesystem check or subprocess call.
C9_Normalizer ==
    (args.efistub = << >> /\ pc # "resolve") =>
        LET a == args.arch
        IN  IF a \in {s_x86_64, s_x64, s_amd64} THEN ArchResult = "x64"
            ELSE IF (Len(a) = 4 /\ re_search(PatI86, a)) \/ a = s_ia32
            THEN ArchResult = "ia32"
            ELSE IF a \in {s_arm64, s_aarch64, s_aa64} THEN ArchResult = "aa64"
            ELSE IF StartsWith(a, s_arm) THEN ArchResult = "arm"
            ELSE /\ ArchResult = SystemExit
                 /\ pc = "done"
                 /\ calls = [exists |-> 0, objdump |-> 0, objcopy |-> 0]

====
